---- MODULE Spec2Model ----
(***************************************************************************)
(* Model of src/pages/UrlTool.tsx: the query-string codec (parseOrder,    *)
(* parseActive, parseConfigs), the edit callbacks (setUrl, toggle,        *)
(* setConfig, move) and the transformResults fold of the UrlTool page.    *)
(*                                                                         *)
(* Representation of JavaScript values.                                    *)
(*  - A string is a non-empty tuple of atoms.  A comma-separated list is   *)
(*    held as the tuple of its comma-free segments, so "a,b" is            *)
(*    <<"a","b">> and the empty string is <<"">> (one empty segment,       *)
(*    which is what "".split(",") yields).  A URL text is the tuple        *)
(*    <<kind, host, l0>> described at IsUrlText.                           *)
(*  - null / undefined is the empty tuple <<>>.                            *)
(*  - A parameter name is the tuple of its dot-free segments:              *)
(*    "hostnameReplace.to" is <<"hostnameReplace","to">>.                  *)
(*  - URLSearchParams is the sequence of its [name, value] entries.        *)
(*  - A JavaScript Set is the sequence of its elements in insertion order. *)
(***************************************************************************)
EXTENDS Integers, Sequences, FiniteSets, TLC

VARIABLES
    searchParams,      \* the flat mapping held by the router (useSearchParams)
    url,               \* render-time: searchParams.get('u') ?? ''
    order,             \* render-time: parseOrder(searchParams.get('order'))
    selected,          \* render-time: parseActive(searchParams.get('active'))
    configs,           \* render-time: parseConfigs(searchParams)
    transformResults,  \* the fold's accumulator when the fold ended (or threw)
    stepInputs,        \* the input each invocation of the fold callback computed
    fault,             \* TRUE when the render threw inside the fold
    mounted,           \* FALSE until the component has rendered once
    lastOp             \* name of the event that produced this render

vars == <<searchParams, url, order, selected, configs, transformResults,
          stepInputs, fault, mounted, lastOp>>

----------------------------------------------------------------------------
(* Bounds of the explored inputs *)

\* longest comma-separated list tried for the raw `order` and `active` values
\* of a link that is decoded and run
MaxTokens == 2

----------------------------------------------------------------------------
(* JavaScript primitives *)

Null == <<>>
EmptyString == <<"">>

Range(s) == {s[i] : i \in 1..Len(s)}

\* !value for a string-or-null value
Falsy(v) == v = Null \/ v = EmptyString

\* s.split(',')
Split(s) == s

\* xs.join(','): the empty array joins to the empty string
Join(xs) == IF xs = <<>> THEN EmptyString ELSE xs

\* xs.indexOf(x), 1-based; 0 when absent (JavaScript's -1)
RECURSIVE IndexFrom(_, _, _)
IndexFrom(xs, x, i) ==
    IF i > Len(xs) THEN 0
    ELSE IF xs[i] = x THEN i
    ELSE IndexFrom(xs, x, i + 1)

IndexOf(xs, x) == IndexFrom(xs, x, 1)

\* new Set(xs): first occurrences, in insertion order
RECURSIVE NewSet(_)
NewSet(xs) ==
    IF xs = <<>> THEN <<>>
    ELSE LET init == NewSet(SubSeq(xs, 1, Len(xs) - 1))
             x == xs[Len(xs)]
         IN IF x \in Range(init) THEN init ELSE Append(init, x)

\* set.delete(x)
SetDelete(s, x) == SelectSeq(s, LAMBDA y : y # x)

\* set.add(x)
SetAdd(s, x) == IF x \in Range(s) THEN s ELSE Append(s, x)

(* URLSearchParams *)

\* p.get(name): the first entry's value, or null
RECURSIVE ParamsGet(_, _)
ParamsGet(p, name) ==
    IF p = <<>> THEN Null
    ELSE IF Head(p).name = name THEN Head(p).value
    ELSE ParamsGet(Tail(p), name)

\* p.delete(name): every entry of that name goes
ParamsDelete(p, name) == SelectSeq(p, LAMBDA e : e.name # name)

\* p.set(name, value): the first entry of that name takes the value and the
\* others go; with no such entry one is appended
ParamsSet(p, name, value) ==
    LET i == IndexFrom([j \in 1..Len(p) |-> p[j].name], name, 1)
    IN IF i = 0 THEN Append(p, [name |-> name, value |-> value])
       ELSE SubSeq(p, 1, i - 1)
            \o <<[name |-> name, value |-> value]>>
            \o ParamsDelete(SubSeq(p, i + 1, Len(p)), name)

----------------------------------------------------------------------------
(* Transform registry *)

ALL_KEYS == <<"stripAwsTracking", "hostnameReplace">>

\* Property names every plain object inherits from Object.prototype.  The
\* registry map is built by Object.fromEntries, so it is a plain object.
ObjectPrototypeKeys == {"toString"}

\* own keys of TRANSFORM_MAP
TransformMapKeys == Range(ALL_KEYS)

\* k in TRANSFORM_MAP: the `in` operator also finds inherited properties
InTransformMap(k) == k \in TransformMapKeys \cup ObjectPrototypeKeys

\* typeof TRANSFORM_MAP[key].fn === 'function': only a registered definition
\* has an fn; an inherited property (a built-in function) has none
HasFn(key) == key \in TransformMapKeys

\* transforms whose definition has a ConfigUI
HasConfigUI(key) == key = "hostnameReplace"

----------------------------------------------------------------------------
(* State codec *)

parseOrder(param) ==
    IF Falsy(param) THEN ALL_KEYS
    ELSE LET keys == SelectSeq(Split(param), InTransformMap)
             missing == SelectSeq(ALL_KEYS, LAMBDA k : k \notin Range(keys))
         IN keys \o missing

parseActive(param) ==
    IF Falsy(param) THEN <<>>
    ELSE NewSet(SelectSeq(Split(param), InTransformMap))

\* configs[key] ?? {}
ConfigOf(cfgs, key) == IF key \in DOMAIN cfgs THEN cfgs[key] ELSE <<>>

\* { ...obj, [field]: value }
WithField(obj, field, value) ==
    [f \in (DOMAIN obj) \cup {field} |-> IF f = field THEN value ELSE obj[f]]

RECURSIVE ParseConfigsFrom(_, _)
ParseConfigsFrom(entries, cfgs) ==
    IF entries = <<>> THEN cfgs
    ELSE LET param == Head(entries).name
             value == Head(entries).value
             key == param[1]
             field == Tail(param)
         IN IF Len(param) = 1 \/ ~InTransformMap(key)
            THEN ParseConfigsFrom(Tail(entries), cfgs)
            ELSE ParseConfigsFrom(Tail(entries),
                    [k \in (DOMAIN cfgs) \cup {key} |->
                        IF k = key THEN WithField(ConfigOf(cfgs, key), field, value)
                        ELSE cfgs[k]])

parseConfigs(params) == ParseConfigsFrom(params, <<>>)

----------------------------------------------------------------------------
(* Reference transforms *)

\* A URL text is <<kind, host, l0>>:
\*   kind  "abs" when new URL(text) parses it, "rel" when new URL throws;
\*   host  its hostname ("" when it has none);
\*   l0    what follows the first "/L0/" up to the next "/": "none" when the
\*         text has no such segment, "bad" when the segment is not valid
\*         percent-encoding, else the hostname h of the absolute URL
\*         "https://h" that the segment percent-decodes to.
IsUrlText(s) == Len(s) = 3

\* fn of stripAwsTracking
stripAwsTracking(input) ==
    IF ~IsUrlText(input) \/ input[3] = "none" THEN Null
    ELSE IF input[3] = "bad" THEN Null
    ELSE <<"abs", input[3], "none">>

\* fn of hostnameReplace
hostnameReplace(input, config) ==
    LET to == IF <<"to">> \in DOMAIN config THEN config[<<"to">>] ELSE Null
    IN IF Falsy(to) THEN Null
       ELSE IF ~IsUrlText(input) \/ input[1] # "abs" THEN Null
       ELSE <<"abs", to[1], input[3]>>

\* TRANSFORM_MAP[key].fn(input, config), for a key that has an fn
TransformFn(key, input, config) ==
    IF key = "stripAwsTracking" THEN stripAwsTracking(input)
    ELSE hostnameReplace(input, config)

----------------------------------------------------------------------------
(* Pipeline fold *)

\* mutant of StepOutput: a null result blanks the value instead of passing
\* the input through
StepOutputBlank(result, input) == result

\* result ?? input
StepOutput(result, input) == IF result = Null THEN input ELSE result

\* the body of the reduce callback, iterated over the remaining keys; the
\* call t.fn(...) throws when TRANSFORM_MAP[key] has no fn
RECURSIVE Reduce(_, _, _, _, _)
Reduce(acc, inputs, keys, cfgs, base) ==
    IF keys = <<>> THEN [acc |-> acc, inputs |-> inputs, fault |-> FALSE]
    ELSE LET key == Head(keys)
             input == IF Len(acc) > 0 THEN acc[Len(acc)].output ELSE base
         IN IF ~HasFn(key)
            THEN [acc |-> acc, inputs |-> Append(inputs, input), fault |-> TRUE]
            ELSE LET result == TransformFn(key, input, ConfigOf(cfgs, key))
                 IN Reduce(Append(acc, [key |-> key, result |-> result,
                                        output |-> StepOutput(result, input)]),
                           Append(inputs, input), Tail(keys), cfgs, base)

\* order.filter(k => selected.has(k))
ActiveOrder(ord, sel) == SelectSeq(ord, LAMBDA k : k \in Range(sel))

RunFold(ord, sel, cfgs, base) == Reduce(<<>>, <<>>, ActiveOrder(ord, sel), cfgs, base)

\* transformResults.length > 0 ? last.output : url
Output == IF Len(transformResults) > 0
          THEN transformResults[Len(transformResults)].output
          ELSE url

\* searchParams.get('u') ?? ''
UrlOf(p) == IF ParamsGet(p, <<"u">>) = Null THEN EmptyString ELSE ParamsGet(p, <<"u">>)

\* One render of the component on the mapping p
Render(p) ==
    LET u == UrlOf(p)
        ord == parseOrder(ParamsGet(p, <<"order">>))
        sel == parseActive(ParamsGet(p, <<"active">>))
        cfgs == parseConfigs(p)
        run == RunFold(ord, sel, cfgs, u)
    IN /\ searchParams' = p
       /\ url' = u
       /\ order' = ord
       /\ selected' = sel
       /\ configs' = cfgs
       /\ transformResults' = run.acc
       /\ stepInputs' = run.inputs
       /\ fault' = run.fault
       /\ mounted' = TRUE

----------------------------------------------------------------------------
(* Edit callbacks: each returns the mapping handed to setSearchParams *)

setUrl(prev, value) ==
    IF ~Falsy(value) THEN ParamsSet(prev, <<"u">>, value)
    ELSE ParamsDelete(prev, <<"u">>)

\* the updater of toggle: next.size > 0 ? set : delete
WriteActive(prev, next) ==
    IF Len(next) > 0 THEN ParamsSet(prev, <<"active">>, Join(next))
    ELSE ParamsDelete(prev, <<"active">>)

\* next is computed from the render's `selected`, then written onto prev
toggle(prev, key) ==
    LET next == IF key \in Range(selected) THEN SetDelete(selected, key)
                ELSE SetAdd(selected, key)
    IN WriteActive(prev, next)

setConfig(prev, key, field, value) ==
    IF ~Falsy(value) THEN ParamsSet(prev, <<key>> \o field, value)
    ELSE ParamsDelete(prev, <<key>> \o field)

\* the updater of move
WriteOrder(prev, next) == ParamsSet(prev, <<"order">>, Join(next))

\* swapWith < 0 || swapWith >= order.length, for the render's `order`
MoveReturns(key, dir) ==
    LET swapWith == IndexOf(order, key) + dir
    IN swapWith < 1 \/ swapWith > Len(order)

\* [next[idx], next[swapWith]] = [next[swapWith], next[idx]]
SwapAt(xs, i, j) ==
    [n \in 1..Len(xs) |-> IF n = i THEN xs[j] ELSE IF n = j THEN xs[i] ELSE xs[n]]

\* mutant of move: the swap writes the neighbour into both positions
moveClobber(prev, key, dir) ==
    LET idx == IndexOf(order, key)
    IN IF MoveReturns(key, dir) THEN prev
       ELSE WriteOrder(prev, [n \in 1..Len(order) |->
                                 IF n = idx THEN order[idx + dir] ELSE order[n]])

move(prev, key, dir) ==
    LET idx == IndexOf(order, key)
    IN IF MoveReturns(key, dir) THEN prev
       ELSE WriteOrder(prev, SwapAt(order, idx, idx + dir))

----------------------------------------------------------------------------
(* Explored inputs *)

\* segments tried in the raw `order` and `active` values: the registered
\* keys, an inherited property name and a name that is no property at all
Tokens == {"stripAwsTracking", "hostnameReplace", "toString", "foo"}

\* raw values of a present `order` or `active` parameter, of at most n segments
RawLists(n) == {EmptyString} \cup UNION {[1..m -> Tokens] : m \in 1..n}

\* texts tried for `u`: Scenario A's wrapped link, a plain URL, and a text
\* that is no URL and carries a badly escaped /L0/ segment
UrlTexts == {<<"abs", "ex.com", "example.com">>,
             <<"abs", "bar.com", "none">>,
             <<"rel", "", "bad">>}

\* values tried for a config field
ConfigValues == {EmptyString, <<"foo.com">>}

\* dotted and undotted parameter names tried beside u, order and active
ConfigNames == {<<"hostnameReplace", "to">>, <<"toString", "to">>,
                <<"foo", "bar">>, <<"foo">>}

Entry(name, value) == [name |-> name, value |-> value]

\* an absent parameter contributes no entry
Opt(name, value) == IF value = Null THEN <<>> ELSE <<Entry(name, value)>>

\* the config part of a link: nothing, one parameter, or hostnameReplace.to
\* given twice
ConfigParts ==
    {<<>>}
    \cup {<<Entry(n, v)>> : n \in ConfigNames, v \in ConfigValues}
    \cup {<<Entry(<<"hostnameReplace", "to">>, v), Entry(<<"hostnameReplace", "to">>, w)>> :
            v \in ConfigValues, w \in ConfigValues}

Link(u, o, a, c) == Opt(<<"u">>, u) \o Opt(<<"order">>, o) \o Opt(<<"active">>, a) \o c

\* texts tried for `u` in a link that is decoded and run
LinkUrls == {Null, EmptyString} \cup UrlTexts

\* raw `order` values an editing session starts from: absent, empty, one
\* key after an unknown segment, a repeated key
SessionOrders ==
    {Null, EmptyString, <<"foo", "hostnameReplace">>,
     <<"stripAwsTracking", "stripAwsTracking">>}

\* raw `active` values an editing session starts from
SessionActives == {Null, <<"stripAwsTracking">>, <<"hostnameReplace", "foo">>}

\* `u` values and config parts an editing session starts from
SessionUrls == {Null, <<"abs", "ex.com", "example.com">>}
SessionConfigParts ==
    {<<>>, <<Entry(<<"hostnameReplace", "to">>, <<"foo.com">>)>>,
     <<Entry(<<"foo", "bar">>, <<"foo.com">>)>>}

----------------------------------------------------------------------------
(* The page: a link is opened, the component renders, then events *)

Unmounted ==
    /\ url = Null
    /\ order = <<>>
    /\ selected = <<>>
    /\ configs = <<>>
    /\ transformResults = <<>>
    /\ stepInputs = <<>>
    /\ fault = FALSE
    /\ mounted = FALSE
    /\ lastOp = "link"

\* a link that is decoded and run
InitLink ==
    /\ \E u \in LinkUrls, o \in {Null} \cup RawLists(MaxTokens),
          a \in {Null} \cup RawLists(MaxTokens), c \in ConfigParts :
            searchParams = Link(u, o, a, c)
    /\ Unmounted

\* a link an editing session starts from
Init ==
    /\ \E u \in SessionUrls, o \in SessionOrders, a \in SessionActives,
          c \in SessionConfigParts :
            searchParams = Link(u, o, a, c)
    /\ Unmounted

\* the first render of the component on the link's mapping
Mount ==
    /\ ~mounted
    /\ Render(searchParams)
    /\ lastOp' = "mount"

\* the event handlers exist once the component rendered without throwing
Live == mounted /\ ~fault

\* onChange of the URL input, and the Clear button
SetUrl(value) ==
    /\ Live
    /\ Render(setUrl(searchParams, value))
    /\ lastOp' = "setUrl"

\* onChange of a row's checkbox
Toggle(key) ==
    /\ Live
    /\ key \in Range(order)
    /\ Render(toggle(searchParams, key))
    /\ lastOp' = "toggle"

\* onChange of a ConfigUI, shown for a selected transform that has one
SetConfig(key, field, value) ==
    /\ Live
    /\ key \in Range(order)
    /\ key \in Range(selected)
    /\ HasConfigUI(key)
    /\ Render(setConfig(searchParams, key, field, value))
    /\ lastOp' = "setConfig"

\* move(key, dir) past the guard: the mapping is replaced and re-rendered
MoveSwap(key, dir) ==
    /\ Live
    /\ key \in Range(order)
    /\ ~MoveReturns(key, dir)
    /\ Render(move(searchParams, key, dir))
    /\ lastOp' = "move"

\* move(key, dir) stopped by the guard: setSearchParams is not called
MoveReturn(key, dir) ==
    /\ Live
    /\ key \in Range(order)
    /\ MoveReturns(key, dir)
    /\ lastOp' = "moveReturn"
    /\ UNCHANGED <<searchParams, url, order, selected, configs,
                   transformResults, stepInputs, fault, mounted>>

\* the calls of toggle and move that one render offers
SnapshotEdits ==
    {[op |-> "toggle", key |-> k, dir |-> 0] : k \in Range(order)}
    \cup {[op |-> "move", key |-> k, dir |-> d] : k \in Range(order), d \in {-1, 1}}

ApplyEdit(prev, e) ==
    IF e.op = "toggle" THEN toggle(prev, e.key) ELSE move(prev, e.key, e.dir)

\* two callbacks of the same render called before the next render: both
\* close over this render's `order` and `selected`; the second updater
\* receives the mapping the first one returned
Batch(e1, e2) ==
    /\ Live
    /\ Render(ApplyEdit(ApplyEdit(searchParams, e1), e2))
    /\ lastOp' = "batch"

Next ==
    \/ Mount
    \/ \E v \in {EmptyString, <<"abs", "ex.com", "example.com">>} : SetUrl(v)
    \/ \E k \in Tokens : Toggle(k)
    \/ \E k \in Tokens, v \in ConfigValues : SetConfig(k, <<"to">>, v)
    \/ \E k \in Tokens, d \in {-1, 1} : MoveSwap(k, d)
    \/ \E k \in Tokens, d \in {-1, 1} : MoveReturn(k, d)
    \/ \E e1 \in SnapshotEdits, e2 \in SnapshotEdits : Batch(e1, e2)

\* an editing session
Spec == Init /\ [][Next]_vars

\* decoding and running a link
SpecLink == InitLink /\ [][Mount]_vars

----------------------------------------------------------------------------
(* Helpers of the properties *)

IsPermutationOfAllKeys(xs) ==
    Len(xs) = Len(ALL_KEYS) /\ Range(xs) = Range(ALL_KEYS)

RawOrder == ParamsGet(searchParams, <<"order">>)
RawActive == ParamsGet(searchParams, <<"active">>)

\* s with x's membership flipped
Flip(s, x) == IF x \in s THEN s \ {x} ELSE s \cup {x}

\* the decoded state of a mapping, the active set taken as a set
Decode(p) ==
    [order |-> parseOrder(ParamsGet(p, <<"order">>)),
     active |-> Range(parseActive(ParamsGet(p, <<"active">>))),
     configs |-> parseConfigs(p)]

\* the config fields of a decoded state, as <<key, field>> pairs
ConfigFields(cfgs) ==
    {kf \in (DOMAIN cfgs) \X UNION {DOMAIN cfgs[j] : j \in DOMAIN cfgs} :
        kf[2] \in DOMAIN cfgs[kf[1]]}

\* setConfig applied for every field of cfgs
RECURSIVE WriteConfigs(_, _, _)
WriteConfigs(p, cfgs, todo) ==
    IF todo = {} THEN p
    ELSE LET kf == CHOOSE x \in todo : TRUE
         IN WriteConfigs(setConfig(p, kf[1], kf[2], cfgs[kf[1]][kf[2]]), cfgs, todo \ {kf})

\* the mapping the edit callbacks write for a decoded state, starting from
\* an empty mapping: move's write of `order`, toggle's write of `active`
\* from the set in the given insertion order, setConfig's write of each field
Encode(ord, sel, cfgs) ==
    WriteConfigs(WriteActive(WriteOrder(<<>>, ord), sel), cfgs, ConfigFields(cfgs))

\* p without its entries of that name whose value is the empty string
WithoutEmpty(p, name) ==
    SelectSeq(p, LAMBDA e : ~(e.name = name /\ e.value = EmptyString))

\* the entries of p other than `order`
AllButOrder(p) == SelectSeq(p, LAMBDA e : e.name # <<"order">>)

----------------------------------------------------------------------------
(* Properties of decoding and running a link (SpecLink) *)

\* C1: whatever the raw `order` value, the decoded order holds each key of
\* ALL_KEYS exactly once: same length, same set, no duplicates.
C1_OrderIsPermutation == mounted => IsPermutationOfAllKeys(order)

\* C2: decoding any mapping and running the fold completes without a fault,
\* and every key the fold looks up is a registered transform with an fn.
C2_FoldNeverFaults ==
    mounted => /\ ~fault
               /\ \A k \in Range(ActiveOrder(order, selected)) : HasFn(k)

\* C3: decode(encode(decode(x))) = decode(x) for every mapping x.
C3_DecodeEncodeDecode ==
    mounted => Decode(Encode(order, selected, configs)) = Decode(searchParams)

\* C5: every element of the decoded active set is a key of ALL_KEYS, and an
\* absent `active` decodes to the empty set.
C5_ActiveSubsetOfAllKeys ==
    mounted => /\ Range(selected) \subseteq Range(ALL_KEYS)
               /\ (RawActive = Null => selected = <<>>)

\* C6: the keys of the decoded configs are keys of ALL_KEYS.
C6_ConfigKeysSubsetOfAllKeys == mounted => DOMAIN configs \subseteq Range(ALL_KEYS)

\* C7: for every decoder a parameter present with the empty string decodes
\* like the parameter absent.
C7_EmptyEqualsAbsent ==
    mounted =>
        /\ parseOrder(EmptyString) = parseOrder(Null)
        /\ parseOrder(Null) = ALL_KEYS
        /\ parseActive(EmptyString) = parseActive(Null)
        /\ parseActive(Null) = <<>>
        /\ \A i \in 1..Len(searchParams) :
              LET e == searchParams[i]
              IN (Len(e.name) > 1 /\ e.name[1] \in Range(ALL_KEYS) /\ e.value = EmptyString)
                 => configs = parseConfigs(WithoutEmpty(searchParams, e.name))

\* C8: a step whose transform returns null outputs what the step before it
\* output (the base input for the first step), and the next step of the
\* active order is still invoked, with that same value as its input.
C8_PassThroughOnNull ==
    mounted =>
        \A i \in 1..Len(transformResults) :
            transformResults[i].result = Null =>
                /\ transformResults[i].output =
                      (IF i = 1 THEN url ELSE transformResults[i - 1].output)
                /\ i < Len(ActiveOrder(order, selected)) =>
                      /\ Len(stepInputs) >= i + 1
                      /\ stepInputs[i + 1] = transformResults[i].output

\* C8 witness: a run whose first step returned null and whose second step
\* ran on the base input
C8_Witness ==
    /\ mounted
    /\ Len(transformResults) = 2
    /\ transformResults[1].result = Null
    /\ transformResults[2].result # Null
    /\ url # EmptyString

\* C9: in a run that completes, the step results are the decoded order
\* restricted to the active set: one result per active key, none for an
\* inactive key, as many results as active keys.
C9_StepsAreActiveOrder ==
    (mounted /\ ~fault) =>
        /\ [i \in 1..Len(transformResults) |-> transformResults[i].key]
              = ActiveOrder(order, selected)
        /\ \A k \in Range(selected) :
              Cardinality({i \in 1..Len(transformResults) : transformResults[i].key = k}) = 1
        /\ \A i \in 1..Len(transformResults) : transformResults[i].key \in Range(selected)
        /\ Len(transformResults) = Cardinality(Range(selected))

----------------------------------------------------------------------------
(* Properties of an editing session (Spec) *)

\* C4: each edit acts on the mapping it is applied to, so two toggles of
\* different keys called from the same render flip both keys: the active
\* set decoded after the pair is the rendered one with the membership of
\* each of the two keys flipped.
C4_BatchedTogglesCompose ==
    [][\A e1 \in SnapshotEdits, e2 \in SnapshotEdits :
          (e1.op = "toggle" /\ e2.op = "toggle" /\ e1.key # e2.key /\ Batch(e1, e2))
             => Range(selected') = Flip(Flip(Range(selected), e1.key), e2.key)]_vars

\* C10: with the rendered order a permutation of ALL_KEYS, move(key, dir)
\* called on the rendered mapping, or on the mapping another callback of the
\* same render just wrote, either returns it unchanged (neighbour out of
\* range) or writes an `order` that decodes to the rendered order with key
\* and its neighbour exchanged, itself a permutation; every other entry of
\* the mapping (u, active, the dotted parameters) is left as it was.
C10_MoveEffectAndFrame ==
    (Live /\ IsPermutationOfAllKeys(order)) =>
        \A prev \in {searchParams} \cup {ApplyEdit(searchParams, e) : e \in SnapshotEdits} :
            \A key \in Range(order), dir \in {-1, 1} :
                LET next == move(prev, key, dir)
                    idx == IndexOf(order, key)
                    decoded == parseOrder(ParamsGet(next, <<"order">>))
                IN /\ MoveReturns(key, dir) => next = prev
                   /\ ~MoveReturns(key, dir) =>
                         /\ decoded = SwapAt(order, idx, idx + dir)
                         /\ IsPermutationOfAllKeys(decoded)
                   /\ AllButOrder(next) = AllButOrder(prev)

\* C10 witness: a move swapped the two keys of a session that carries a
\* URL, an active set and a config parameter
C10_Witness ==
    /\ lastOp = "move"
    /\ order = <<"hostnameReplace", "stripAwsTracking">>
    /\ RawOrder = Join(order)
    /\ url # EmptyString
    /\ selected # <<>>
    /\ DOMAIN configs # {}

====
